---- MODULE Spec2Model ----
(***************************************************************************)
(* Model of the route grouping and duration derivation of the ferry        *)
(* frontend (ferry-frontend-nextjs/src/lib/utils.ts), of the home page     *)
(* that searches and presents the groups (src/app/page.tsx) and of the     *)
(* route search it calls through FerryAPI.searchRoutes (src/lib/api.ts).   *)
(*                                                                         *)
(* JavaScript strings are sequences of one-character strings, so that the  *)
(* template literals, split, replace, parseInt, Number and localeCompare   *)
(* of the code are computed character by character.  JavaScript numbers    *)
(* are records [kind, val] with kind "num", "NaN" or "Infinity".           *)
(***************************************************************************)
EXTENDS Integers, Sequences, FiniteSets, TLC

VARIABLES
    routes,      \* groupRoutesByPath: the argument `routes`
    idx,         \* groupRoutesByPath: number of entries routes.forEach has visited
    groupMap,    \* groupRoutesByPath: the Map, as the sequence of its values in insertion order
    gpc,         \* groupRoutesByPath: "forEach" (in the first loop) or "returned"
    grouped,     \* groupRoutesByPath: the returned array
    departure,   \* calculateDuration: argument `departure` (a string or Undefined)
    arrival,     \* calculateDuration: argument `arrival` (a string or Undefined)
    duration,    \* calculateDuration: the local `duration` (line 83)
    dpc,         \* calculateDuration: "call", "returned"
    result,      \* calculateDuration: the returned string
    cardResult,  \* RouteCard's calculateDuration: None, or Some of the returned string
    busDiff,     \* the island page's calculateDuration: the local `diffMinutes`
    busResult,   \* renderBusSchedules: None, or Some of the `duration` of the row
    nextRef,     \* the heap: the number of group objects allocated so far
    groupRefs,   \* groupRoutesByPath: the identity of each group object of the Map
    calls,       \* the earlier calls of groupRoutesByPath: argument, result, identities
    routeGroups,         \* Home: state routeGroups
    loading,             \* Home: state loading
    error,               \* Home: state error (Null or a message)
    currentSearchParams, \* Home: state currentSearchParams
    pagination,          \* Home: state pagination
    inflight,            \* the requests FerryAPI.searchRoutes has sent and not yet answered
    issued,              \* number of requests FerryAPI.searchRoutes has sent
    served               \* FerryAPI.searchRoutes called directly: the responses it returned

gvars == <<routes, idx, groupMap, gpc, grouped>>

cvars == <<nextRef, groupRefs, calls>>

hvars == <<routeGroups, loading, error, currentSearchParams, pagination, inflight, issued, served>>

dvars == <<departure, arrival, duration, dpc, result, cardResult, busDiff, busResult>>

vars == <<gvars, cvars, dvars, hvars>>

(***************************************************************************)
(* Bounds of the model.                                                    *)
(***************************************************************************)
\* longest input array handed to groupRoutesByPath
MaxRoutes == 3

\* longest input array of a call in a series of calls of groupRoutesByPath
MaxCallRoutes == 1

\* number of calls in a series of calls of groupRoutesByPath
MaxCalls == 3

\* number of rows of the schedule table behind /api/v1/routes
TableRows == 23

\* number of searches the home page starts
MaxSearches == 3

\* number of direct calls of FerryAPI.searchRoutes
MaxApiCalls == 2

(***************************************************************************)
(* JavaScript values and built-ins used by utils.ts.                       *)
(***************************************************************************)
Num(n) == [kind |-> "num", val |-> n]

NaN == [kind |-> "NaN", val |-> 0]

Infinity == [kind |-> "Infinity", val |-> 0]

\* the value of a missing argument or field
Undefined == <<"undefined">>

Digits == {"0", "1", "2", "3", "4", "5", "6", "7", "8", "9"}

IsDigit(c) == c \in Digits

DigitVal(c) ==
    CASE c = "0" -> 0 [] c = "1" -> 1 [] c = "2" -> 2 [] c = "3" -> 3 [] c = "4" -> 4
      [] c = "5" -> 5 [] c = "6" -> 6 [] c = "7" -> 7 [] c = "8" -> 8 [] c = "9" -> 9

DigitChar(d) == <<"0", "1", "2", "3", "4", "5", "6", "7", "8", "9">>[d + 1]

\* a field that is absent is None, a field holding v is Some(v)
None == <<>>

Some(v) == <<v>>

\* the null of the error state
Null == "null"

\* the decimal value of a string of digits
RECURSIVE DecimalValue(_)
DecimalValue(s) ==
    IF s = <<>> THEN 0
    ELSE 10 * DecimalValue(SubSeq(s, 1, Len(s) - 1)) + DigitVal(s[Len(s)])

\* s.replace(/[^\d]/g, '')
StripNonDigits(s) == SelectSeq(s, IsDigit)

\* the longest prefix of s made of digits
RECURSIVE DigitPrefix(_)
DigitPrefix(s) ==
    IF s = <<>> \/ ~IsDigit(Head(s)) THEN <<>>
    ELSE <<Head(s)>> \o DigitPrefix(Tail(s))

\* parseInt(s): the integer of the leading digits, NaN when there is none
\* (the strings of the model carry neither sign nor leading white space)
ParseInt(s) ==
    IF DigitPrefix(s) = <<>> THEN NaN ELSE Num(DecimalValue(DigitPrefix(s)))

\* a < b on JavaScript numbers: false as soon as one side is NaN
JsLess(a, b) ==
    CASE a.kind = "NaN" \/ b.kind = "NaN" -> FALSE
      [] a.kind = "Infinity" -> FALSE
      [] b.kind = "Infinity" -> TRUE
      [] OTHER -> a.val < b.val

\* position of the first occurrence of c in s, 0 when there is none
RECURSIVE IndexOf(_, _)
IndexOf(s, c) ==
    IF s = <<>> THEN 0
    ELSE IF Head(s) = c THEN 1
    ELSE IF IndexOf(Tail(s), c) = 0 THEN 0 ELSE 1 + IndexOf(Tail(s), c)

\* s.replace(c, ''): a string pattern replaces the first occurrence only
RemoveFirst(s, c) ==
    IF IndexOf(s, c) = 0 THEN s
    ELSE SubSeq(s, 1, IndexOf(s, c) - 1) \o SubSeq(s, IndexOf(s, c) + 1, Len(s))

\* primary collation weight of the characters a departure_time can hold:
\* punctuation sorts before digits, digits in numeric order, letters after
CollationRank(c) ==
    CASE c = ":" -> 0
      [] IsDigit(c) -> 1 + DigitVal(c)
      [] OTHER -> 11

\* a.localeCompare(b): negative, zero or positive
RECURSIVE LocaleCompare(_, _)
LocaleCompare(a, b) ==
    CASE a = <<>> /\ b = <<>> -> 0
      [] a = <<>> -> -1
      [] b = <<>> -> 1
      [] CollationRank(Head(a)) < CollationRank(Head(b)) -> -1
      [] CollationRank(Head(a)) > CollationRank(Head(b)) -> 1
      [] OTHER -> LocaleCompare(Tail(a), Tail(b))

(***************************************************************************)
(* Clock times.                                                            *)
(***************************************************************************)
AllDigits(s) == \A k \in 1..Len(s) : s[k] \in Digits

\* a clock time written HH:MM or H:MM, hour 0..23 and minute 00..59
ValidTime(t) ==
    /\ t # Undefined
    /\ Len(SelectSeq(t, LAMBDA c : c = ":")) = 1
    /\ LET hh == SubSeq(t, 1, IndexOf(t, ":") - 1)
           mm == SubSeq(t, IndexOf(t, ":") + 1, Len(t))
       IN  /\ Len(hh) \in {1, 2} /\ AllDigits(hh) /\ DecimalValue(hh) <= 23
           /\ Len(mm) = 2 /\ AllDigits(mm) /\ DecimalValue(mm) <= 59

\* minute of day of a time written H:MM or HH:MM
MinuteOfDay(t) ==
    60 * DecimalValue(SubSeq(t, 1, IndexOf(t, ":") - 1))
        + DecimalValue(SubSeq(t, IndexOf(t, ":") + 1, Len(t)))

\* the minute of day n written HH:MM
ClockTime(n) ==
    <<DigitChar((n \div 60) \div 10), DigitChar((n \div 60) % 10), ":",
      DigitChar((n % 60) \div 10), DigitChar((n % 60) % 10)>>

(***************************************************************************)
(* The schedule entries (FerryRoute, types/index.ts) the model draws the   *)
(* inputs of groupRoutesByPath from.  The fields the grouper does not read *)
(* (ship_type, allows_vehicles, allows_bicycles, child_fare, notes) are    *)
(* left out.  '$' stands for the yen sign of the fare strings.             *)
(***************************************************************************)
FerryRoute(dp, ap, dt, at, co, fare, days) ==
    [departure_port |-> dp, arrival_port |-> ap, departure_time |-> dt,
     arrival_time |-> at, company |-> co, adult_fare |-> fare,
     operating_days |-> days]

PortT == <<"T">>

PortN == <<"N">>

PortTN == <<"T", "-", "N">>

PortNN == <<"N", "-", "N">>

Fare1220 == <<"$", "1", ",", "2", "2", "0">>

Fare520 == <<"$", "5", "2", "0">>

Fare090 == <<"0", "9", "0", "y">>

FareAsk == <<"a", "s", "k">>

FareZero == <<"$", "0">>

SampleRoutes ==
    { FerryRoute(PortT, PortN, <<"0", "8", ":", "0", "0">>, <<"0", "8", ":", "2", "5">>, "A", Fare1220, "daily"),
      FerryRoute(PortT, PortN, <<"2", "3", ":", "5", "0">>, <<"0", "0", ":", "1", "0">>, "A", Fare1220, "daily"),
      FerryRoute(PortT, PortN, <<"9", ":", "0", "5">>, <<"9", ":", "5", "5">>, "B", Fare520, "daily"),
      FerryRoute(PortT, PortN, <<"1", "0", ":", "0", "0">>, <<"1", "0", ":", "5", "0">>, "B", FareAsk, "limited"),
      FerryRoute(PortT, PortN, <<"0", "9", ":", "3", "0">>, <<"1", "0", ":", "2", "0">>, "C", Fare090, "daily"),
      FerryRoute(PortN, PortT, <<"0", "9", ":", "3", "0">>, <<"1", "0", ":", "2", "0">>, "A", FareAsk, "daily"),
      FerryRoute(PortN, PortT, <<"1", "7", ":", "0", "0">>, <<"1", "7", ":", "5", "0">>, "B", FareZero, "daily"),
      FerryRoute(PortTN, PortN, <<"0", "7", ":", "0", "0">>, <<"0", "7", ":", "2", "0">>, "C", Fare520, "daily"),
      FerryRoute(PortT, PortNN, <<"0", "6", ":", "0", "0">>, <<"0", "6", ":", "4", "0">>, "A", Fare1220, "daily"),
      FerryRoute(PortN, PortN, <<"1", "2", ":", "0", "0">>, <<"1", "2", ":", "3", "0">>, "B", Fare520, "daily"),
      FerryRoute(PortT, PortN, <<"0", "8", ":", "0", "0">>, <<"0", "8", ":", "3", "0">>, "C", Fare520, "daily"),
      FerryRoute(PortN, PortT, <<"n", "a">>, <<>>, "D", FareAsk, "limited (summer)") }

\* the arrays of at most n entries
RouteArrays(n) == UNION { [1..k -> SampleRoutes] : k \in 0..n }

(***************************************************************************)
(* RouteSearchParams (types/index.ts 53-63): every field is optional.      *)
(***************************************************************************)
Params(dep, arr, co, from, to, veh, bic, pg, lim) ==
    [departure |-> dep, arrival |-> arr, company |-> co,
     departure_time_start |-> from, departure_time_end |-> to,
     allows_vehicles |-> veh, allows_bicycles |-> bic,
     page |-> pg, limit |-> lim]

\* the object {}
EmptyParams == Params(None, None, None, None, None, None, None, None, None)

(***************************************************************************)
(* The route search behind GET /api/v1/routes.  Its code is not part of    *)
(* the sources; it is modelled from its specification: the Route Filter    *)
(* (substring containment on departure, arrival and company, an inclusive  *)
(* departure-time window on normalised times, equality on the two          *)
(* capabilities, every present constraint combined with AND, table order   *)
(* kept) followed by pagination of the filtered rows, total being the      *)
(* number of filtered rows.                                                *)
(***************************************************************************)
\* limit when the query has none
DefaultLimit == 20

CompanySK == <<"S", "K">>

CompanySF == <<"S", "F">>

CompanyR == <<"R">>

\* row i of the schedule table: rows 2 and 5 sail N -> T, the others T -> N;
\* row 3 is stored with a single-digit hour, row 4 with a time that is none
TableRow(i) ==
    [departure_port |-> IF i \in {2, 5} THEN PortN ELSE PortT,
     arrival_port |-> IF i \in {2, 5} THEN PortT ELSE PortN,
     departure_time |-> CASE i = 3 -> <<"9", ":", "0", "5">>
                          [] i = 4 -> <<"n", "a">>
                          [] OTHER -> ClockTime(360 + 30 * i),
     arrival_time |-> CASE i = 3 -> <<"9", ":", "3", "0">>
                        [] i = 4 -> <<>>
                        [] OTHER -> ClockTime(385 + 30 * i),
     company |-> <<CompanySK, CompanySF, CompanyR>>[(i % 3) + 1],
     allows_vehicles |-> (i % 2 = 0),
     allows_bicycles |-> (i % 3 # 0),
     adult_fare |-> IF i % 4 = 0 THEN FareAsk
                    ELSE IF i % 2 = 1 THEN Fare520 ELSE Fare1220,
     operating_days |-> IF i = 6 THEN "limited" ELSE "daily"]

ScheduleTable == [i \in 1..TableRows |-> TableRow(i)]

\* needle occurs in hay
IsSubstring(needle, hay) ==
    \E i \in 0..(Len(hay) - Len(needle)) : SubSeq(hay, i + 1, i + Len(needle)) = needle

\* a clock time with its hour written in two digits
NormaliseTime(t) == ClockTime(MinuteOfDay(t))

\* a variant of TimeLeq that compares the times as they are written
TimeLeqAsWritten(a, b) == LocaleCompare(a, b) <= 0

\* a <= b on zero-padded HH:MM strings
TimeLeq(a, b) == LocaleCompare(NormaliseTime(a), NormaliseTime(b)) <= 0

\* the departure-time window: an entry whose time does not parse is outside
\* every window
InWindow(entry, query) ==
    \/ query.departure_time_start = None /\ query.departure_time_end = None
    \/ /\ ValidTime(entry.departure_time)
       /\ query.departure_time_start # None =>
              TimeLeq(query.departure_time_start[1], entry.departure_time)
       /\ query.departure_time_end # None =>
              TimeLeq(entry.departure_time, query.departure_time_end[1])

\* a variant of Matches that lets an entry pass on either port
MatchesEitherPort(entry, query) ==
    /\ \/ query.departure = None \/ IsSubstring(query.departure[1], entry.departure_port)
       \/ query.arrival = None \/ IsSubstring(query.arrival[1], entry.arrival_port)
    /\ query.company = None \/ IsSubstring(query.company[1], entry.company)
    /\ InWindow(entry, query)
    /\ query.allows_vehicles = None \/ entry.allows_vehicles = query.allows_vehicles[1]
    /\ query.allows_bicycles = None \/ entry.allows_bicycles = query.allows_bicycles[1]

\* the entry satisfies every constraint the query holds
Matches(entry, query) ==
    /\ query.departure = None \/ IsSubstring(query.departure[1], entry.departure_port)
    /\ query.arrival = None \/ IsSubstring(query.arrival[1], entry.arrival_port)
    /\ query.company = None \/ IsSubstring(query.company[1], entry.company)
    /\ InWindow(entry, query)
    /\ query.allows_vehicles = None \/ entry.allows_vehicles = query.allows_vehicles[1]
    /\ query.allows_bicycles = None \/ entry.allows_bicycles = query.allows_bicycles[1]

\* the Route Filter
RouteFilter(table, query) == SelectSeq(table, LAMBDA entry : Matches(entry, query))

PageOf(query) == IF query.page = None THEN 1 ELSE query.page[1]

LimitOf(query) == IF query.limit = None THEN DefaultLimit ELSE query.limit[1]

\* rows (page - 1) * limit + 1 .. page * limit of the filtered rows
Paginate(rows, page, limit) ==
    IF (page - 1) * limit >= Len(rows) THEN <<>>
    ELSE SubSeq(rows, (page - 1) * limit + 1,
                IF page * limit < Len(rows) THEN page * limit ELSE Len(rows))

\* largest limit a query may ask for
MaxLimit == 100

\* a variant of Validation that checks the two times only
ValidationOfTimes(query) ==
    IF query.departure_time_start # None /\ ~ValidTime(query.departure_time_start[1])
    THEN "departure_time_start"
    ELSE IF query.departure_time_end # None /\ ~ValidTime(query.departure_time_end[1])
    THEN "departure_time_end"
    ELSE "none"

\* the first field of the query that is syntactically invalid, "none" when
\* the query is valid (the capabilities of the model are booleans always)
Validation(query) ==
    IF query.departure_time_start # None /\ ~ValidTime(query.departure_time_start[1])
    THEN "departure_time_start"
    ELSE IF query.departure_time_end # None /\ ~ValidTime(query.departure_time_end[1])
    THEN "departure_time_end"
    ELSE IF query.limit # None /\ query.limit[1] > MaxLimit
    THEN "limit"
    ELSE "none"

\* the body of the response to GET /api/v1/routes: a validation error that
\* names the field, the query not being executed, or the page of the
\* filtered rows
SearchRoutes(table, query) ==
    IF Validation(query) # "none"
    THEN [success |-> FALSE,
          data |-> <<>>,
          total |-> 0,
          page |-> 0,
          limit |-> 0,
          message |-> <<"validation error", Validation(query)>>]
    ELSE [success |-> TRUE,
          data |-> Paginate(RouteFilter(table, query), PageOf(query), LimitOf(query)),
          total |-> Len(RouteFilter(table, query)),
          page |-> PageOf(query),
          limit |-> LimitOf(query),
          message |-> <<"ok", "none">>]

(***************************************************************************)
(* groupRoutesByPath (utils.ts 22-67).                                     *)
(***************************************************************************)
\* `${route.departure_port}-${route.arrival_port}`
RouteKey(route) == route.departure_port \o <<"-">> \o route.arrival_port

\* a variant of NewGroup that counts the entry that created the group
NewGroupCountOne(route) ==
    [routeKey |-> RouteKey(route),
     departure |-> route.departure_port,
     arrival |-> route.arrival_port,
     schedules |-> <<>>,
     companies |-> <<>>,
     minPrice |-> Infinity,
     totalSchedules |-> 1]

\* the group groupMap.set stores for a key seen for the first time
NewGroup(route) ==
    [routeKey |-> RouteKey(route),
     departure |-> route.departure_port,
     arrival |-> route.arrival_port,
     schedules |-> <<>>,
     companies |-> <<>>,
     minPrice |-> Infinity,
     totalSchedules |-> 0]

\* groupMap.has(key)
MapHas(map, key) == \E k \in 1..Len(map) : map[k].routeKey = key

\* position of the value groupMap.get(key) returns
MapIndex(map, key) == CHOOSE k \in 1..Len(map) : map[k].routeKey = key

\* a variant of AddCompany that pushes without the includes test
AddCompanyAlways(companies, company) == Append(companies, company)

\* group.companies after the includes/push of lines 44-46
AddCompany(companies, company) ==
    IF \E k \in 1..Len(companies) : companies[k] = company
    THEN companies
    ELSE Append(companies, company)

\* a variant of AdultFare that reads a fare without digits as 0
AdultFareOrZero(route) ==
    IF StripNonDigits(route.adult_fare) = <<>> THEN Num(0)
    ELSE ParseInt(StripNonDigits(route.adult_fare))

\* parseInt(route.adult_fare.replace(/[^\d]/g, ''))
AdultFare(route) == ParseInt(StripNonDigits(route.adult_fare))

\* a variant of UpdateMinPrice that keeps the last parsed fare
UpdateMinPriceLast(minPrice, adultFare) ==
    IF adultFare.kind = "num" THEN adultFare ELSE minPrice

\* group.minPrice after lines 49-52
UpdateMinPrice(minPrice, adultFare) ==
    IF JsLess(adultFare, minPrice) THEN adultFare ELSE minPrice

\* a variant of Accumulate that drops an entry whose fare does not parse
AccumulateSkipUnpriced(map, route) ==
    IF AdultFare(route).kind = "NaN" THEN map
    ELSE LET withKey == IF MapHas(map, RouteKey(route)) THEN map
                        ELSE Append(map, NewGroup(route))
             k == MapIndex(withKey, RouteKey(route))
             group == withKey[k]
         IN  [withKey EXCEPT ![k] =
                 [group EXCEPT
                     !.schedules = Append(group.schedules, route),
                     !.companies = AddCompany(group.companies, route.company),
                     !.minPrice = UpdateMinPrice(group.minPrice, AdultFare(route)),
                     !.totalSchedules = group.totalSchedules + 1]]

\* the body of the routes.forEach callback for one route (lines 26-54)
Accumulate(map, route) ==
    LET withKey == IF MapHas(map, RouteKey(route)) THEN map
                   ELSE Append(map, NewGroup(route))
        k == MapIndex(withKey, RouteKey(route))
        group == withKey[k]
    IN  [withKey EXCEPT ![k] =
            [group EXCEPT
                !.schedules = Append(group.schedules, route),
                !.companies = AddCompany(group.companies, route.company),
                !.minPrice = UpdateMinPrice(group.minPrice, AdultFare(route)),
                !.totalSchedules = group.totalSchedules + 1]]

\* the comparator of lines 59-63
CompareDeparture(a, b) ==
    LocaleCompare(RemoveFirst(a.departure_time, ":"), RemoveFirst(b.departure_time, ":"))

\* x put into the sorted list after every element that does not compare after it
RECURSIVE InsertSorted(_, _)
InsertSorted(sorted, x) ==
    IF sorted = <<>> THEN <<x>>
    ELSE IF CompareDeparture(Head(sorted), x) <= 0
         THEN <<Head(sorted)>> \o InsertSorted(Tail(sorted), x)
         ELSE <<x>> \o sorted

\* group.schedules.sort(comparator): Array.prototype.sort is stable
RECURSIVE SortSchedules(_)
SortSchedules(schedules) ==
    IF schedules = <<>> THEN <<>>
    ELSE InsertSorted(SortSchedules(SubSeq(schedules, 1, Len(schedules) - 1)),
                      schedules[Len(schedules)])

\* groupMap.forEach(group => group.schedules.sort(...)) (lines 58-64)
SortAll(map) ==
    [k \in 1..Len(map) |-> [map[k] EXCEPT !.schedules = SortSchedules(map[k].schedules)]]

\* routes.forEach(callback) over a whole array (lines 25-55)
RECURSIVE AccumulateAll(_)
AccumulateAll(rs) ==
    IF rs = <<>> THEN <<>>
    ELSE Accumulate(AccumulateAll(SubSeq(rs, 1, Len(rs) - 1)), rs[Len(rs)])

\* the value of a whole call groupRoutesByPath(rs)
GroupRoutesByPath(rs) == SortAll(AccumulateAll(rs))

\* the identities of the objects a call has allocated: one per group (the
\* object literal of lines 28-38 with its two array literals), and the array
\* Array.from builds
ResultRefs(refs, arrayRef) == { refs[k] : k \in 1..Len(refs) } \cup {arrayRef}

\* one iteration of routes.forEach (lines 25-55)
ForEachRoute ==
    /\ gpc = "forEach"
    /\ idx < Len(routes)
    /\ groupMap' = Accumulate(groupMap, routes[idx + 1])
    /\ groupRefs' = IF MapHas(groupMap, RouteKey(routes[idx + 1])) THEN groupRefs
                    ELSE Append(groupRefs, nextRef + 1)
    /\ nextRef' = IF MapHas(groupMap, RouteKey(routes[idx + 1])) THEN nextRef
                  ELSE nextRef + 1
    /\ idx' = idx + 1
    /\ UNCHANGED <<routes, gpc, grouped, calls, dvars, hvars>>

\* a variant of SortAndReturn that sorts the argument array as well
SortAndReturnInPlace ==
    /\ gpc = "forEach"
    /\ idx = Len(routes)
    /\ groupMap' = SortAll(groupMap)
    /\ routes' = SortSchedules(routes)
    /\ grouped' = groupMap'
    /\ nextRef' = nextRef + 1
    /\ calls' = Append(calls, [routes |-> routes, grouped |-> grouped',
                               refs |-> ResultRefs(groupRefs, nextRef')])
    /\ gpc' = "returned"
    /\ UNCHANGED <<idx, groupRefs, dvars, hvars>>

\* groupMap.forEach(sort) and return Array.from(groupMap.values()) (lines 58-66)
SortAndReturn ==
    /\ gpc = "forEach"
    /\ idx = Len(routes)
    /\ groupMap' = SortAll(groupMap)
    /\ grouped' = groupMap'
    /\ nextRef' = nextRef + 1
    /\ calls' = Append(calls, [routes |-> routes, grouped |-> grouped',
                               refs |-> ResultRefs(groupRefs, nextRef')])
    /\ gpc' = "returned"
    /\ UNCHANGED <<routes, idx, groupRefs, dvars, hvars>>

(***************************************************************************)
(* The RouteGroup component that renders one group.  "limited" stands     *)
(* for the operating_days value that marks a limited-period sailing.       *)
(***************************************************************************)
LimitedPeriodMarker == "limited"

\* a variant of IsLimitedPeriod that asks every member to carry the marker
IsLimitedPeriodEvery(routeGroup) ==
    \A k \in 1..Len(routeGroup.schedules) :
        routeGroup.schedules[k].operating_days = LimitedPeriodMarker

\* isLimitedPeriod: routeGroup.schedules.some(...) (lines 16-19)
IsLimitedPeriod(routeGroup) ==
    \E k \in 1..Len(routeGroup.schedules) :
        routeGroup.schedules[k].operating_days = LimitedPeriodMarker

\* the state of Home before any search (page.tsx 16-26)
HomeInit ==
    /\ routeGroups = <<>>
    /\ loading = FALSE
    /\ error = Null
    /\ currentSearchParams = EmptyParams
    /\ pagination = [total |-> 0, page |-> 1, limit |-> 20]
    /\ inflight = {}
    /\ issued = 0
    /\ served = <<>>

\* no call of groupRoutesByPath has been made
NoCalls ==
    /\ nextRef = 0
    /\ groupRefs = <<>>
    /\ calls = <<>>

GroupIdle ==
    /\ routes = <<>>
    /\ idx = 0
    /\ groupMap = <<>>
    /\ gpc = "idle"
    /\ grouped = <<>>
    /\ NoCalls

DurationIdle ==
    /\ departure = Undefined
    /\ arrival = Undefined
    /\ duration = NaN
    /\ dpc = "idle"
    /\ result = <<>>
    /\ cardResult = None
    /\ busDiff = NaN
    /\ busResult = None

InitGroup ==
    /\ routes \in RouteArrays(MaxRoutes)
    /\ idx = 0
    /\ groupMap = <<>>
    /\ gpc = "forEach"
    /\ grouped = <<>>
    /\ NoCalls
    /\ DurationIdle
    /\ HomeInit

NextGroup == ForEachRoute \/ SortAndReturn

SpecGroup == InitGroup /\ [][NextGroup]_vars

(***************************************************************************)
(* A series of calls of groupRoutesByPath, one after the other (JavaScript *)
(* runs each call to completion).                                          *)
(***************************************************************************)
\* two sailings of one route and one of another, the entries the calls of
\* a series are made of
CallSamples ==
    { FerryRoute(PortT, PortN, <<"0", "8", ":", "0", "0">>, <<"0", "8", ":", "2", "5">>, "A", Fare1220, "daily"),
      FerryRoute(PortT, PortN, <<"0", "7", ":", "0", "0">>, <<"0", "7", ":", "2", "5">>, "B", Fare520, "daily"),
      FerryRoute(PortN, PortT, <<"0", "9", ":", "3", "0">>, <<"1", "0", ":", "2", "0">>, "A", FareAsk, "daily") }

CallArrays == UNION { [1..k -> CallSamples] : k \in 0..MaxCallRoutes }

\* a variant of CallGroupRoutesByPath whose Map lives outside the function
CallWithSharedMap(rs) ==
    /\ gpc = "returned"
    /\ Len(calls) < MaxCalls
    /\ routes' = rs
    /\ idx' = 0
    /\ gpc' = "forEach"
    /\ grouped' = <<>>
    /\ UNCHANGED <<groupMap, groupRefs, nextRef, calls, dvars, hvars>>

\* a further call groupRoutesByPath(rs): const groupMap = new Map() (lines 22-23)
CallGroupRoutesByPath(rs) ==
    /\ gpc = "returned"
    /\ Len(calls) < MaxCalls
    /\ routes' = rs
    /\ idx' = 0
    /\ groupMap' = <<>>
    /\ groupRefs' = <<>>
    /\ gpc' = "forEach"
    /\ grouped' = <<>>
    /\ UNCHANGED <<nextRef, calls, dvars, hvars>>

InitCalls ==
    /\ routes \in CallArrays
    /\ idx = 0
    /\ groupMap = <<>>
    /\ gpc = "forEach"
    /\ grouped = <<>>
    /\ NoCalls
    /\ DurationIdle
    /\ HomeInit

NextCalls ==
    \/ ForEachRoute
    \/ SortAndReturn
    \/ \E rs \in CallArrays : CallGroupRoutesByPath(rs)

SpecCalls == InitCalls /\ [][NextCalls]_vars

(***************************************************************************)
(* The home page (app/page.tsx) with its search form.  A search is the     *)
(* synchronous start of handleSearch up to the await, and later one of the *)
(* three ways the awaited request ends.  The message strings are replaced  *)
(* by names.                                                               *)
(***************************************************************************)
\* Object.keys(params).length > 0
HasKeys(params) == \E f \in DOMAIN params : params[f] # None

\* x || d for a number x
JsOr(x, d) == IF x = 0 THEN d ELSE x

\* a variant of CeilDiv that rounds down
FloorDiv(a, b) == a \div b

\* Math.ceil(a / b) for a >= 0 and b > 0
CeilDiv(a, b) == (a + b - 1) \div b

\* Math.ceil(pagination.total / pagination.limit) (lines 177, 200, 205)
TotalPages == CeilDiv(pagination.total, pagination.limit)

\* the results block is rendered (line 169)
ShowsResults == Len(routeGroups) > 0

\* the pagination controls are rendered (line 189)
ShowsPagination == ShowsResults /\ pagination.total > pagination.limit

\* the disabled attributes of the two buttons (lines 193, 205)
PrevDisabled == pagination.page <= 1 \/ loading

\* a variant of NextDisabled that still offers 'next' on the last page
NextDisabledAfterLast == pagination.page > TotalPages \/ loading

NextDisabled == pagination.page >= TotalPages \/ loading

\* the 'no matching routes' block is rendered (line 234)
ShowsEmptyState ==
    /\ ~loading
    /\ Len(routeGroups) = 0
    /\ HasKeys(currentSearchParams)
    /\ error = Null

\* the popular routes are offered (line 135), once they are loaded
ShowsPopular == Len(routeGroups) = 0

\* handleSearch up to the await (lines 58-64)
HandleSearch(params) ==
    /\ issued < MaxSearches
    /\ loading' = TRUE
    /\ error' = Null
    /\ currentSearchParams' = params
    /\ issued' = issued + 1
    /\ inflight' = inflight \cup {[id |-> issued + 1, params |-> params]}
    /\ UNCHANGED <<routeGroups, pagination, served, gvars, cvars, dvars>>

\* the options of the two selects of the search form: '' or a port
FormPorts == {<<>>, PortT}

\* a string field without its value when that value is ''
CleanField(v) == IF v = Some(<<>>) THEN None ELSE v

\* cleanParams of SearchForm.handleSubmit: the entries that are neither ''
\* nor undefined
CleanParams(formData) ==
    [formData EXCEPT !.departure = CleanField(@), !.arrival = CleanField(@),
                     !.company = CleanField(@),
                     !.departure_time_start = CleanField(@),
                     !.departure_time_end = CleanField(@)]

\* SearchForm.handleSubmit; the submit button is disabled while loading
SubmitSearch(dep, arr) ==
    /\ ~loading
    /\ HandleSearch(CleanParams(Params(Some(dep), Some(arr), None, None, None,
                                       None, None, Some(1), Some(20))))

\* the routes getPopularRoutes has delivered
PopularRoutes ==
    { [departure |-> PortT, arrival |-> PortN], [departure |-> PortN, arrival |-> PortT] }

\* handlePopularRouteClick (lines 92-100)
HandlePopularRouteClick(route) ==
    /\ ShowsPopular
    /\ HandleSearch(Params(Some(route.departure), Some(route.arrival), None, None, None,
                           None, None, Some(1), Some(20)))

\* the departure and arrival of the page's URL, None for an absent one
UrlSearches == { <<Some(PortT), None>>, <<None, Some(PortN)>> }

\* value || ''
OrEmpty(v) == IF v = None THEN Some(<<>>) ELSE v

\* the effect on the URL parameters (lines 42-54)
UrlAutoSearch(url) ==
    /\ url[1] # None \/ url[2] # None
    /\ HandleSearch(Params(OrEmpty(url[1]), OrEmpty(url[2]), None, None, None,
                           None, None, Some(1), Some(20)))

\* handlePageChange (lines 86-89)
HandlePageChange(newPage) ==
    HandleSearch([currentSearchParams EXCEPT !.page = Some(newPage)])

\* a click on the previous-page button (lines 191-196)
PreviousPage ==
    /\ ShowsPagination
    /\ ~PrevDisabled
    /\ HandlePageChange(pagination.page - 1)

\* a click on the next-page button (lines 203-208)
NextPage ==
    /\ ShowsPagination
    /\ ~NextDisabled
    /\ HandlePageChange(pagination.page + 1)

\* the parameters a search of the page can carry: '' or a port or nothing
\* for departure and arrival, a page, and the limit 20 or none (a page
\* change after the reset of currentSearchParams)
HomeQueries ==
    { Params(dep, arr, None, None, None, None, None, Some(pg), lim) :
          dep \in {None, Some(<<>>), Some(PortT), Some(PortN)},
          arr \in {None, Some(<<>>), Some(PortT), Some(PortN)},
          pg \in 1..(MaxSearches + 1),
          lim \in {None, Some(20)} }

\* the response body of each of them, and groupRoutesByPath(response.data),
\* computed once for each query
SearchResponses == [query \in HomeQueries |-> SearchRoutes(ScheduleTable, query)]

GroupedResponses == [query \in HomeQueries |-> GroupRoutesByPath(SearchResponses[query].data)]

\* a variant of SearchSucceeds that reports an empty page as a failure
SearchSucceedsEmptyFails(req) ==
    LET response == SearchResponses[req.params]
    IN  /\ req \in inflight
        /\ IF response.data = <<>>
           THEN /\ error' = "SearchFailed"
                /\ UNCHANGED <<routeGroups, pagination>>
           ELSE /\ routeGroups' = GroupedResponses[req.params]
                /\ pagination' = [total |-> JsOr(response.total, 0),
                                  page |-> JsOr(response.page, 1),
                                  limit |-> JsOr(response.limit, 20)]
                /\ error' = error
        /\ loading' = FALSE
        /\ inflight' = inflight \ {req}
        /\ UNCHANGED <<currentSearchParams, issued, served, gvars, cvars, dvars>>

\* the request resolves with success: true (lines 64-73, 80-82)
SearchSucceeds(req) ==
    LET response == SearchResponses[req.params]
    IN  /\ req \in inflight
        /\ response.success
        /\ routeGroups' = GroupedResponses[req.params]
        /\ pagination' = [total |-> JsOr(response.total, 0),
                          page |-> JsOr(response.page, 1),
                          limit |-> JsOr(response.limit, 20)]
        /\ loading' = FALSE
        /\ inflight' = inflight \ {req}
        /\ UNCHANGED <<error, currentSearchParams, issued, served, gvars, cvars, dvars>>

\* the request resolves with success: false (lines 74-76, 80-82)
SearchFails(req) ==
    /\ req \in inflight
    /\ error' = "SearchFailed"
    /\ loading' = FALSE
    /\ inflight' = inflight \ {req}
    /\ UNCHANGED <<routeGroups, pagination, currentSearchParams, issued, served,
                   gvars, cvars, dvars>>

\* a variant of SearchThrows without the finally block
SearchThrowsNoFinally(req) ==
    /\ req \in inflight
    /\ error' = "NetworkError"
    /\ inflight' = inflight \ {req}
    /\ UNCHANGED <<loading, routeGroups, pagination, currentSearchParams, issued, served,
                   gvars, cvars, dvars>>

\* the request rejects: a network error, an HTTP error status or the
\* 10 s timeout of the axios instance (lines 77-82)
SearchThrows(req) ==
    /\ req \in inflight
    /\ error' = "NetworkError"
    /\ loading' = FALSE
    /\ inflight' = inflight \ {req}
    /\ UNCHANGED <<routeGroups, pagination, currentSearchParams, issued, served,
                   gvars, cvars, dvars>>

\* the button of the 'no matching routes' block (lines 240-243)
ResetSearch ==
    /\ ShowsEmptyState
    /\ routeGroups' = <<>>
    /\ currentSearchParams' = EmptyParams
    /\ UNCHANGED <<loading, error, pagination, inflight, issued, served,
                   gvars, cvars, dvars>>

InitHome ==
    /\ HomeInit
    /\ GroupIdle
    /\ DurationIdle

NextHome ==
    \/ \E dep, arr \in FormPorts : SubmitSearch(dep, arr)
    \/ \E route \in PopularRoutes : HandlePopularRouteClick(route)
    \/ \E url \in UrlSearches : UrlAutoSearch(url)
    \/ PreviousPage
    \/ NextPage
    \/ \E req \in inflight : SearchSucceeds(req)
    \/ \E req \in inflight : SearchFails(req)
    \/ \E req \in inflight : SearchThrows(req)
    \/ ResetSearch

SpecHome == InitHome /\ [][NextHome]_vars

\* the awaited request of the i-th search ends, in one of the three ways
Respond(i) ==
    \E req \in inflight :
        /\ req.id = i
        /\ SearchSucceeds(req) \/ SearchFails(req) \/ SearchThrows(req)

\* the page when every request ends: the axios instance rejects a request
\* that has had no response for 10 s (api.ts 14), and handleSearch then
\* continues after its await
SpecHomeFair ==
    /\ InitHome
    /\ [][NextHome]_vars
    /\ \A i \in 1..MaxSearches : WF_vars(Respond(i))

(***************************************************************************)
(* FerryAPI.searchRoutes (lib/api.ts 46-49) called directly, with any      *)
(* RouteSearchParams.                                                      *)
(***************************************************************************)
Time0900 == <<"0", "9", ":", "0", "0">>

Time1000 == <<"1", "0", ":", "0", "0">>

\* the queries of the direct calls
Queries ==
    { EmptyParams,
      Params(Some(PortT), None, None, None, None, None, None, None, None),
      Params(Some(PortN), Some(PortT), None, None, None, None, None, Some(1), Some(20)),
      Params(None, None, Some(<<"S">>), None, None, None, None, None, None),
      Params(None, None, Some(CompanySK), None, None, Some(TRUE), None, None, None),
      Params(None, None, None, Some(Time0900), Some(Time1000), None, None, None, None),
      Params(None, None, None, Some(Time0900), None, None, None, None, None),
      Params(Some(PortT), None, None, None, Some(Time1000), None, Some(TRUE), None, None),
      Params(None, None, None, None, None, Some(FALSE), Some(TRUE), None, None),
      Params(Some(PortN), Some(PortN), None, None, None, None, None, None, None),
      Params(Some(PortT), Some(PortN), None, None, None, None, None, Some(2), Some(20)),
      Params(None, None, None, None, None, None, Some(FALSE), Some(2), Some(5)),
      Params(None, None, None, Some(<<"9", "a", "m">>), None, None, None, None, None),
      Params(Some(PortT), None, None, Some(Time0900), Some(<<"1", "0", "0", "0">>), None, None, None, None),
      Params(None, None, None, None, None, None, None, None, Some(101)),
      Params(None, None, None, None, None, None, None, None, Some(100)) }

\* the response body of each of them, computed once for each query
QueryResponses == [query \in Queries |-> SearchRoutes(ScheduleTable, query)]

\* api.get('/api/v1/routes', { params }) is sent (line 47)
ApiCall(query) ==
    /\ issued < MaxApiCalls
    /\ issued' = issued + 1
    /\ inflight' = inflight \cup {[id |-> issued + 1, params |-> query]}
    /\ UNCHANGED <<routeGroups, loading, error, currentSearchParams, pagination, served,
                   gvars, cvars, dvars>>

\* return response.data (line 48)
ApiReturn(req) ==
    /\ req \in inflight
    /\ served' = Append(served, [params |-> req.params,
                                 response |-> QueryResponses[req.params]])
    /\ inflight' = inflight \ {req}
    /\ UNCHANGED <<routeGroups, loading, error, currentSearchParams, pagination, issued,
                   gvars, cvars, dvars>>

InitApi ==
    /\ HomeInit
    /\ GroupIdle
    /\ DurationIdle

NextApi ==
    \/ \E query \in Queries : ApiCall(query)
    \/ \E req \in inflight : ApiReturn(req)

SpecApi == InitApi /\ [][NextApi]_vars

(***************************************************************************)
(* calculateDuration (utils.ts 70-95).  'h' stands for the hour sign and   *)
(* 'm' for the minute sign of the returned string.                         *)
(***************************************************************************)
HourSign == "h"

MinuteSign == "m"

\* s.split(sep): the pieces of s between the occurrences of sep
RECURSIVE Split(_, _)
Split(s, sep) ==
    IF IndexOf(s, sep) = 0 THEN <<s>>
    ELSE <<SubSeq(s, 1, IndexOf(s, sep) - 1)>>
            \o Split(SubSeq(s, IndexOf(s, sep) + 1, Len(s)), sep)

\* Number(s): 0 for the empty string, the decimal value of a string of
\* digits, NaN for a string with any other character of the model
ToNumber(s) ==
    IF \A k \in 1..Len(s) : IsDigit(s[k]) THEN Num(DecimalValue(s)) ELSE NaN

\* the k-th element an array destructuring binds: a missing element is
\* undefined, which every arithmetic operator turns into NaN
Destructure(nums, k) == IF k <= Len(nums) THEN nums[k] ELSE NaN

\* a + b, a - b, a * b on the finite numbers and NaN
JsAdd(a, b) == IF a.kind = "num" /\ b.kind = "num" THEN Num(a.val + b.val) ELSE NaN

JsSub(a, b) == IF a.kind = "num" /\ b.kind = "num" THEN Num(a.val - b.val) ELSE NaN

JsMul(a, b) == IF a.kind = "num" /\ b.kind = "num" THEN Num(a.val * b.val) ELSE NaN

\* Math.floor(a / b) for b > 0
JsFloorDiv(a, b) == IF a.kind = "num" THEN Num(a.val \div b) ELSE NaN

\* a % b for b > 0: the remainder has the sign of a
JsRem(a, b) ==
    IF a.kind # "num" THEN NaN
    ELSE IF a.val >= 0 THEN Num(a.val % b) ELSE Num(0 - ((0 - a.val) % b))

\* the decimal digits of a natural number
RECURSIVE NatToString(_)
NatToString(n) ==
    IF n < 10 THEN <<DigitChar(n)>>
    ELSE NatToString(n \div 10) \o <<DigitChar(n % 10)>>

\* `${x}` of a number in a template literal
NumberToString(x) ==
    CASE x.kind = "NaN" -> <<"N", "a", "N">>
      [] x.kind = "Infinity" -> <<"I", "n", "f", "i", "n", "i", "t", "y">>
      [] x.val < 0 -> <<"-">> \o NatToString(0 - x.val)
      [] OTHER -> NatToString(x.val)

\* a variant of ToMinutes that reads HH:MM as the number HHMM
ToMinutesHundred(hour, min) == JsAdd(JsMul(hour, Num(100)), min)

\* hour * 60 + min (lines 75-76)
ToMinutes(hour, min) == JsAdd(JsMul(hour, Num(60)), min)

\* a variant of AdjustArrival without the next-day correction
AdjustArrivalNever(arrMinutes, depMinutes) == arrMinutes

\* a variant of AdjustArrival that also moves an equal arrival to the next day
AdjustArrivalOrEqual(arrMinutes, depMinutes) ==
    IF JsLess(arrMinutes, depMinutes) \/ arrMinutes = depMinutes
    THEN JsAdd(arrMinutes, Num(24 * 60))
    ELSE arrMinutes

\* arrMinutes after the next-day correction of lines 79-81
AdjustArrival(arrMinutes, depMinutes) ==
    IF JsLess(arrMinutes, depMinutes) THEN JsAdd(arrMinutes, Num(24 * 60)) ELSE arrMinutes

\* the local `duration` of line 83, for string arguments
Duration(dep, arr) ==
    LET depNums == [k \in 1..Len(Split(dep, ":")) |-> ToNumber(Split(dep, ":")[k])]
        arrNums == [k \in 1..Len(Split(arr, ":")) |-> ToNumber(Split(arr, ":")[k])]
        depMinutes == ToMinutes(Destructure(depNums, 1), Destructure(depNums, 2))
        arrMinutes == ToMinutes(Destructure(arrNums, 1), Destructure(arrNums, 2))
    IN  JsSub(AdjustArrival(arrMinutes, depMinutes), depMinutes)

\* a variant of FormatDuration that always writes the hours
FormatDurationWithHours(d) ==
    NumberToString(JsFloorDiv(d, 60)) \o <<HourSign>>
        \o NumberToString(JsRem(d, 60)) \o <<MinuteSign>>

\* the string built from `duration` by lines 84-91
FormatDuration(d) ==
    LET hours == JsFloorDiv(d, 60)
        minutes == JsRem(d, 60)
    IN  IF JsLess(Num(0), hours)
        THEN NumberToString(hours) \o <<HourSign>> \o NumberToString(minutes) \o <<MinuteSign>>
        ELSE NumberToString(minutes) \o <<MinuteSign>>

\* the arguments the model calls calculateDuration with: times written
\* HH:MM or H:MM, strings that are no time, and a missing value
TimeArgs ==
    { <<"0", "0", ":", "0", "0">>, <<"0", "0", ":", "1", "0">>, <<"0", "8", ":", "0", "0">>,
      <<"0", "8", ":", "2", "5">>, <<"9", ":", "0", "5">>, <<"0", "9", ":", "0", "5">>,
      <<"1", "0", ":", "0", "0">>, <<"1", "2", ":", "3", "0">>, <<"2", "3", ":", "5", "0">>,
      <<"2", "3", ":", "5", "9">>,
      <<>>, <<"0", "9", "0", "0">>, <<"a", "b", ":", "0", "0">>, <<"0", "9", ":", "x">>,
      Undefined }

\* the call of calculateDuration: departure.split or arrival.split throws a
\* TypeError on a missing argument and the catch returns '-' (lines 92-94)
CalculateDuration ==
    /\ dpc = "call"
    /\ IF departure = Undefined \/ arrival = Undefined
       THEN /\ duration' = NaN
            /\ result' = <<"-">>
       ELSE /\ duration' = Duration(departure, arrival)
            /\ result' = FormatDuration(Duration(departure, arrival))
    /\ dpc' = "returned"
    /\ UNCHANGED <<departure, arrival, cardResult, busDiff, busResult, gvars, cvars, hvars>>

InitDuration ==
    /\ departure \in TimeArgs
    /\ arrival \in TimeArgs
    /\ duration = NaN
    /\ dpc = "call"
    /\ result = <<>>
    /\ cardResult = None
    /\ busDiff = NaN
    /\ busResult = None
    /\ GroupIdle
    /\ HomeInit

NextDuration == CalculateDuration

SpecDuration == InitDuration /\ [][NextDuration]_vars

(***************************************************************************)
(* The two other duration helpers of the frontend: the calculateDuration   *)
(* embedded in RouteCard (RouteCard.tsx 36-60) and the one of the island   *)
(* detail page (part_003 271-294), which renderBusSchedules calls for each *)
(* bus row.  'H' and 'M' stand for the hour and minute signs of the island *)
(* page.  The three helpers are applied to the same pair of strings.       *)
(***************************************************************************)
\* RouteCard: arrMinutes after the next-day correction of lines 45-47
RouteCardAdjustArrival(arrMinutes, depMinutes) ==
    IF JsLess(arrMinutes, depMinutes) THEN JsAdd(arrMinutes, Num(24 * 60)) ELSE arrMinutes

\* RouteCard: the local `duration` of line 49, for string arguments
RouteCardDuration(dep, arr) ==
    LET depNums == [k \in 1..Len(Split(dep, ":")) |-> ToNumber(Split(dep, ":")[k])]
        arrNums == [k \in 1..Len(Split(arr, ":")) |-> ToNumber(Split(arr, ":")[k])]
        depMinutes == JsAdd(JsMul(Destructure(depNums, 1), Num(60)), Destructure(depNums, 2))
        arrMinutes == JsAdd(JsMul(Destructure(arrNums, 1), Num(60)), Destructure(arrNums, 2))
    IN  JsSub(RouteCardAdjustArrival(arrMinutes, depMinutes), depMinutes)

\* RouteCard: the string built from `duration` by lines 50-57
RouteCardFormat(d) ==
    LET hours == JsFloorDiv(d, 60)
        minutes == JsRem(d, 60)
    IN  IF JsLess(Num(0), hours)
        THEN NumberToString(hours) \o <<HourSign>> \o NumberToString(minutes) \o <<MinuteSign>>
        ELSE NumberToString(minutes) \o <<MinuteSign>>

\* the call of RouteCard's calculateDuration; a missing argument makes
\* split throw and the catch returns '-' (lines 58-60)
RouteCardCalculateDuration ==
    /\ dpc \in {"call", "returned"}
    /\ cardResult = None
    /\ cardResult' = IF departure = Undefined \/ arrival = Undefined
                     THEN Some(<<"-">>)
                     ELSE Some(RouteCardFormat(RouteCardDuration(departure, arrival)))
    /\ UNCHANGED <<departure, arrival, duration, dpc, result, busDiff, busResult,
                   gvars, cvars, hvars>>

BusHourSign == "H"

BusMinuteSign == "M"

\* island page: the local `diffMinutes` of line 279, for string arguments
BusDiffMinutes(dep, arr) ==
    LET depNums == [k \in 1..Len(Split(dep, ":")) |-> ToNumber(Split(dep, ":")[k])]
        arrNums == [k \in 1..Len(Split(arr, ":")) |-> ToNumber(Split(arr, ":")[k])]
        depMinutes == JsAdd(JsMul(Destructure(depNums, 1), Num(60)), Destructure(depNums, 2))
        arrMinutes == JsAdd(JsMul(Destructure(arrNums, 1), Num(60)), Destructure(arrNums, 2))
    IN  JsSub(arrMinutes, depMinutes)

\* island page: the string returned for `diffMinutes` (lines 281-290)
BusFormat(d) ==
    LET hours == JsFloorDiv(d, 60)
        minutes == JsRem(d, 60)
    IN  IF JsLess(d, Num(0)) THEN <<>>
        ELSE IF JsLess(Num(0), hours)
        THEN NumberToString(hours) \o <<BusHourSign>> \o NumberToString(minutes)
                 \o <<BusMinuteSign>>
        ELSE NumberToString(minutes) \o <<BusMinuteSign>>

\* a value of a bus row is truthy: neither missing nor ''
Truthy(v) == v # Undefined /\ v # <<>>

\* the `duration` renderBusSchedules computes for a bus row (lines
\* 240-243): the helper is called only with two truthy times
BusDuration ==
    /\ dpc \in {"call", "returned"}
    /\ busResult = None
    /\ IF Truthy(departure) /\ Truthy(arrival)
       THEN /\ busDiff' = BusDiffMinutes(departure, arrival)
            /\ busResult' = Some(BusFormat(BusDiffMinutes(departure, arrival)))
       ELSE /\ busDiff' = busDiff
            /\ busResult' = Some(<<>>)
    /\ UNCHANGED <<departure, arrival, duration, dpc, result, cardResult,
                   gvars, cvars, hvars>>

InitHelpers == InitDuration

NextHelpers ==
    \/ CalculateDuration
    \/ RouteCardCalculateDuration
    \/ BusDuration

SpecHelpers == InitHelpers /\ [][NextHelpers]_vars

(***************************************************************************)
(* Properties of groupRoutesByPath.                                        *)
(***************************************************************************)
\* the (departure_port, arrival_port) pair of an entry
PortPair(r) == <<r.departure_port, r.arrival_port>>

\* whether entry r is one of the schedules of group g
IsMember(g, r) == \E k \in 1..Len(g.schedules) : g.schedules[k] = r

\* the elements of a sequence in order of first occurrence, each once
RECURSIVE FirstOccurrences(_)
FirstOccurrences(s) ==
    IF s = <<>> THEN <<>>
    ELSE LET init == FirstOccurrences(SubSeq(s, 1, Len(s) - 1))
             last == s[Len(s)]
         IN  IF \E k \in 1..Len(init) : init[k] = last THEN init ELSE Append(init, last)

HasDigit(fare) == \E k \in 1..Len(fare) : fare[k] \in Digits

\* the integer left when every non-digit character of a fare is deleted
FareValue(fare) == DecimalValue(SelectSeq(fare, LAMBDA c : c \in Digits))

\* C1: the returned groups are exactly the distinct (departure_port,
\* arrival_port) pairs of the input in order of first occurrence, every member
\* of a group has the group's departure and arrival, and two entries are in
\* one group if and only if their departure ports and their arrival ports
\* are equal.
C1_OneGroupPerPair ==
    gpc = "returned" =>
        /\ [k \in 1..Len(grouped) |-> <<grouped[k].departure, grouped[k].arrival>>]
              = FirstOccurrences([i \in 1..Len(routes) |-> PortPair(routes[i])])
        /\ \A k \in 1..Len(grouped) : \A n \in 1..Len(grouped[k].schedules) :
              PortPair(grouped[k].schedules[n]) = <<grouped[k].departure, grouped[k].arrival>>
        /\ \A i, j \in 1..Len(routes) :
              (\E k \in 1..Len(grouped) :
                    IsMember(grouped[k], routes[i]) /\ IsMember(grouped[k], routes[j]))
                <=> PortPair(routes[i]) = PortPair(routes[j])

\* C2: in every returned group the schedules are in non-decreasing order of
\* the minute of day of their departure_time: of two members whose
\* departure_time is a clock time, the earlier one in the list does not
\* depart later.
C2_SortedByMinuteOfDay ==
    gpc = "returned" =>
        \A k \in 1..Len(grouped) : \A n, m \in 1..Len(grouped[k].schedules) :
            (/\ n < m
             /\ ValidTime(grouped[k].schedules[n].departure_time)
             /\ ValidTime(grouped[k].schedules[m].departure_time))
                => MinuteOfDay(grouped[k].schedules[n].departure_time)
                       <= MinuteOfDay(grouped[k].schedules[m].departure_time)

\* C3: a returned group with at least one member whose adult_fare holds a
\* digit has as minPrice the least digit-stripped fare of those members.
C3_MinPriceIsMinimum ==
    gpc = "returned" =>
        \A k \in 1..Len(grouped) :
            LET priced == { n \in 1..Len(grouped[k].schedules) :
                                HasDigit(grouped[k].schedules[n].adult_fare) }
            IN  priced # {} =>
                    /\ grouped[k].minPrice.kind = "num"
                    /\ \E n \in priced :
                          grouped[k].minPrice.val = FareValue(grouped[k].schedules[n].adult_fare)
                    /\ \A n \in priced :
                          grouped[k].minPrice.val <= FareValue(grouped[k].schedules[n].adult_fare)

\* a returned group holds a priced fare that is not the first one seen and
\* is the least, next to a dearer one and a digit-free one
C3_Witness ==
    /\ gpc = "returned"
    /\ \E k \in 1..Len(grouped) :
          /\ Len(grouped[k].schedules) = 3
          /\ \E n \in 1..3 : ~HasDigit(grouped[k].schedules[n].adult_fare)
          /\ \E n \in 1..3 : grouped[k].schedules[n].adult_fare = Fare1220
          /\ \E i \in 2..Len(routes) : routes[i].adult_fare = Fare520
                                       /\ IsMember(grouped[k], routes[i])
          /\ grouped[k].minPrice = Num(520)

\* whether no member of group g has a digit in its adult_fare
AllDigitFree(g) ==
    \A n \in 1..Len(g.schedules) : ~HasDigit(g.schedules[n].adult_fare)

\* the forEach step that visits an entry whose adult_fare has no digit goes
\* on to the next entry, puts the entry into a group and leaves the minPrice
\* of every group as it was; a group it creates has Infinity
DigitFreeStepKeepsMinPrice ==
    (gpc = "forEach" /\ idx < Len(routes) /\ ~HasDigit(routes[idx + 1].adult_fare))
    => /\ gpc' = "forEach" /\ idx' = idx + 1
       /\ \E k \in 1..Len(groupMap') : IsMember(groupMap'[k], routes[idx + 1])
       /\ \A k \in 1..Len(groupMap) : groupMap'[k].minPrice = groupMap[k].minPrice
       /\ \A k \in (Len(groupMap) + 1)..Len(groupMap') : groupMap'[k].minPrice = Infinity

\* a group is never left with NaN, and a group without a priced member has
\* the sentinel Infinity (so not 0)
DigitFreeGroupsHaveSentinel ==
    \A k \in 1..Len(groupMap) :
        /\ groupMap[k].minPrice # NaN
        /\ AllDigitFree(groupMap[k]) => groupMap[k].minPrice = Infinity

\* the call returns every digit-free entry of the input in a group
DigitFreeEntriesAreGrouped ==
    gpc = "returned" =>
        \A i \in 1..Len(routes) : \E k \in 1..Len(grouped) : IsMember(grouped[k], routes[i])

\* C4: an entry whose adult_fare has no digit does not change its group's
\* minPrice and does not stop the grouping; a group whose members all have
\* digit-free fares has minPrice Infinity (the 'no valid price' value), never
\* 0 and never NaN.  (Stated of every step of the call and the state it ends
\* in; the call starts with no group.)
C4_DigitFreeFareIgnored ==
    [][/\ DigitFreeStepKeepsMinPrice
       /\ DigitFreeGroupsHaveSentinel'
       /\ DigitFreeEntriesAreGrouped']_vars

\* a returned group of two digit-free members, next to a group whose
\* digit-free member followed a priced one
C4_Witness ==
    /\ gpc = "returned"
    /\ \E k \in 1..Len(grouped) :
          /\ Len(grouped[k].schedules) >= 1
          /\ AllDigitFree(grouped[k])
          /\ grouped[k].minPrice = Infinity
    /\ \E k \in 1..Len(grouped) :
          /\ ~AllDigitFree(grouped[k])
          /\ ~HasDigit(routes[Len(routes)].adult_fare)
          /\ IsMember(grouped[k], routes[Len(routes)])
          /\ grouped[k].minPrice.kind = "num"

\* the companies of the input entries that are members of g, in input order
MemberCompanies(g) ==
    LET members == SelectSeq(routes, LAMBDA r : IsMember(g, r))
    IN  [i \in 1..Len(members) |-> members[i].company]

\* C10: in every returned group, companies lists the companies of the
\* group's members, each exactly once, in order of first appearance in the
\* input.
C10_CompaniesFirstSeenOnce ==
    gpc = "returned" =>
        \A k \in 1..Len(grouped) :
            /\ grouped[k].companies = FirstOccurrences(MemberCompanies(grouped[k]))
            /\ \A a, b \in 1..Len(grouped[k].companies) :
                  grouped[k].companies[a] = grouped[k].companies[b] => a = b
            /\ { grouped[k].companies[a] : a \in 1..Len(grouped[k].companies) }
                  = { grouped[k].schedules[n].company : n \in 1..Len(grouped[k].schedules) }

\* a returned group whose members came in as companies A, B, A
C10_Witness ==
    /\ gpc = "returned"
    /\ \E k \in 1..Len(grouped) :
          /\ MemberCompanies(grouped[k]) = <<"A", "B", "A">>
          /\ grouped[k].companies = <<"A", "B">>

\* the sum of the totalSchedules of the groups
RECURSIVE SumTotalSchedules(_)
SumTotalSchedules(groups) ==
    IF groups = <<>> THEN 0
    ELSE groups[1].totalSchedules + SumTotalSchedules(Tail(groups))

\* C11: no sailing is lost or duplicated: every returned group's
\* totalSchedules equals the length of its schedules list and is at least 1,
\* and the totalSchedules of all groups sum to the number of input entries.
C11_NoSailingLostOrDuplicated ==
    gpc = "returned" =>
        /\ \A k \in 1..Len(grouped) :
              /\ grouped[k].totalSchedules = Len(grouped[k].schedules)
              /\ grouped[k].totalSchedules >= 1
        /\ SumTotalSchedules(grouped) = Len(routes)

\* three entries returned as a group of two and a group of one
C11_Witness ==
    /\ gpc = "returned"
    /\ Len(routes) = 3
    /\ Len(grouped) = 2
    /\ grouped[1].totalSchedules = 2
    /\ grouped[2].totalSchedules = 1

\* the bijections of 1..n onto itself
Shuffles(n) == { p \in [1..n -> 1..n] : \A i, j \in 1..n : p[i] = p[j] => i = j }

\* the array rs read in the order p
Shuffled(rs, p) == [i \in 1..Len(rs) |-> rs[p[i]]]

\* the companies of a group, as a set
CompanySet(g) == { g.companies[k] : k \in 1..Len(g.companies) }

\* two results hold the same groups: a group of one has, under the same
\* routeKey, a group of the other with the same schedules in the same order,
\* the same companies, minPrice and totalSchedules
SameGroups(as, bs) ==
    /\ Len(as) = Len(bs)
    /\ \A k \in 1..Len(as) : \E l \in 1..Len(bs) :
          /\ as[k].routeKey = bs[l].routeKey
          /\ as[k].schedules = bs[l].schedules
          /\ CompanySet(as[k]) = CompanySet(bs[l])
          /\ as[k].minPrice = bs[l].minPrice
          /\ as[k].totalSchedules = bs[l].totalSchedules

\* C13: grouping is order-independent on input: the groups returned for the
\* input are the groups groupRoutesByPath yields for every permutation of
\* it (same members in the same internal order, same companies, minPrice
\* and totalSchedules).
C13_OrderIndependent ==
    gpc = "returned" =>
        \A p \in Shuffles(Len(routes)) :
            SameGroups(grouped, GroupRoutesByPath(Shuffled(routes, p)))

\* an entry with a departure or arrival time that is no clock time, or with
\* a fare without digits
Unparseable(r) ==
    \/ ~ValidTime(r.departure_time)
    \/ ~ValidTime(r.arrival_time)
    \/ ~HasDigit(r.adult_fare)

\* how many elements of the sequence s equal x
Occurrences(s, x) == Cardinality({ k \in 1..Len(s) : s[k] = x })

\* C14: a row with an unparseable time or fare is skipped only for the
\* derived value that needs the field: it is in the schedules of its group
\* as often as it is in the input, the group counts it in totalSchedules and
\* lists its company; and a call on such rows never throws: replace,
\* parseInt and localeCompare are defined on every string, so until the call
\* has returned the guard of the next iteration or of the return holds.
C14_UnparseableRowsKept ==
    /\ gpc = "forEach" => (idx < Len(routes) \/ idx = Len(routes))
    /\ gpc \in {"forEach", "returned"}
    /\ gpc = "returned" =>
          \A i \in 1..Len(routes) :
              Unparseable(routes[i]) =>
                  \E k \in 1..Len(grouped) :
                      /\ grouped[k].routeKey = RouteKey(routes[i])
                      /\ Occurrences(grouped[k].schedules, routes[i])
                            = Occurrences(routes, routes[i])
                      /\ grouped[k].totalSchedules = Len(grouped[k].schedules)
                      /\ routes[i].company \in CompanySet(grouped[k])

\* a returned group of two whose second member has neither a clock time nor
\* a fare with digits, and brought the company D
C14_Witness ==
    /\ gpc = "returned"
    /\ \E k \in 1..Len(grouped) :
          /\ Len(grouped[k].schedules) = 2
          /\ \E n \in 1..2 :
                /\ ~ValidTime(grouped[k].schedules[n].departure_time)
                /\ ~ValidTime(grouped[k].schedules[n].arrival_time)
                /\ ~HasDigit(grouped[k].schedules[n].adult_fare)
          /\ grouped[k].companies = <<"A", "D">>
          /\ grouped[k].minPrice = Infinity

\* C15: a returned group is flagged date-limited if and only if at least one
\* of the input entries of its route has operating_days exactly equal to the
\* reserved marker, and the flag removes no schedule: a flagged group lists
\* every input entry of its route as often as the input holds it.
C15_LimitedIffSomeMemberMarked ==
    gpc = "returned" =>
        \A k \in 1..Len(grouped) :
            /\ IsLimitedPeriod(grouped[k])
                  <=> \E i \in 1..Len(routes) :
                         /\ RouteKey(routes[i]) = grouped[k].routeKey
                         /\ routes[i].operating_days = LimitedPeriodMarker
            /\ IsLimitedPeriod(grouped[k]) =>
                  \A i \in 1..Len(routes) :
                      RouteKey(routes[i]) = grouped[k].routeKey =>
                          Occurrences(grouped[k].schedules, routes[i])
                              = Occurrences(routes, routes[i])

\* a flagged group with a marked member and a daily one, returned next to an
\* unflagged group whose member's operating_days only starts with the marker
C15_Witness ==
    /\ gpc = "returned"
    /\ \E k, l \in 1..Len(grouped) :
          /\ IsLimitedPeriod(grouped[k])
          /\ Len(grouped[k].schedules) = 2
          /\ \E n \in 1..2 : grouped[k].schedules[n].operating_days = "daily"
          /\ ~IsLimitedPeriod(grouped[l])
          /\ grouped[l].schedules[1].operating_days = "limited (summer)"

\* C18: groupRoutesByPath never mutates what it is given: no step of the
\* call changes the input array, so after the call it has the same length,
\* the same element order and entries with the same field values.
C18_InputNotMutated == [][routes' = routes]_vars

\* a returned group whose sort exchanged the two entries of the input
C18_Witness ==
    /\ gpc = "returned"
    /\ Len(routes) = 2
    /\ routes[1] # routes[2]
    /\ Len(grouped) = 1
    /\ grouped[1].schedules = <<routes[2], routes[1]>>

\* C19: the grouper is stateless across calls: the result of every call is
\* the grouping of its own argument, so two calls with the same input return
\* equal results whatever calls ran before or in between, and the groups,
\* lists and array a call returns are objects no other call's result holds.
C19_StatelessAcrossCalls ==
    /\ \A i \in 1..Len(calls) : calls[i].grouped = GroupRoutesByPath(calls[i].routes)
    /\ \A i, j \in 1..Len(calls) :
          i # j =>
              /\ calls[i].routes = calls[j].routes => calls[i].grouped = calls[j].grouped
              /\ calls[i].refs \cap calls[j].refs = {}

\* three calls, the first and the third with the same entry, the second
\* with another one of the same route
C19_Witness ==
    /\ Len(calls) = 3
    /\ Len(calls[1].routes) = 1
    /\ Len(calls[2].routes) = 1
    /\ RouteKey(calls[2].routes[1]) = RouteKey(calls[1].routes[1])
    /\ calls[3].routes = calls[1].routes
    /\ calls[2].routes # calls[1].routes
    /\ calls[2].routes # <<>>
    /\ calls[3].grouped = calls[1].grouped
    /\ calls[3].grouped # calls[2].grouped

(***************************************************************************)
(* Properties of the search as the home page presents it.                  *)
(***************************************************************************)
\* a query that constrains nothing: every filter field absent or ''
Unconstrained(params) ==
    /\ params.departure \in {None, Some(<<>>)}
    /\ params.arrival \in {None, Some(<<>>)}
    /\ params.company \in {None, Some(<<>>)}
    /\ params.departure_time_start = None
    /\ params.departure_time_end = None
    /\ params.allows_vehicles = None
    /\ params.allows_bicycles = None

\* C12: when the page handles the successful response to a query with no
\* constraints, the total it reports is the number of rows of the schedule
\* table and the schedule counts of the groups it presents sum to that
\* total.
C12_UnconstrainedTotals ==
    [][\A req \in inflight :
          (SearchSucceeds(req) /\ Unconstrained(req.params)) =>
              /\ pagination'.total = TableRows
              /\ SumTotalSchedules(routeGroups') = pagination'.total]_vars

\* the least number of pages of l rows that hold t rows
PagesNeeded(t, l) == CHOOSE n \in 0..t : n * l >= t /\ (n = 0 \/ (n - 1) * l < t)

Contains(field, text) ==
    text = <<>> \/ \E i, j \in 1..Len(field) : SubSeq(field, i, j) = text

\* the entry satisfies every constraint present in the query; the time
\* window is read as minutes of the day
Satisfies(entry, query) ==
    /\ query.departure # None => Contains(entry.departure_port, query.departure[1])
    /\ query.arrival # None => Contains(entry.arrival_port, query.arrival[1])
    /\ query.company # None => Contains(entry.company, query.company[1])
    /\ query.departure_time_start # None =>
          /\ ValidTime(entry.departure_time)
          /\ MinuteOfDay(query.departure_time_start[1]) <= MinuteOfDay(entry.departure_time)
    /\ query.departure_time_end # None =>
          /\ ValidTime(entry.departure_time)
          /\ MinuteOfDay(entry.departure_time) <= MinuteOfDay(query.departure_time_end[1])
    /\ query.allows_vehicles # None => entry.allows_vehicles = query.allows_vehicles[1]
    /\ query.allows_bicycles # None => entry.allows_bicycles = query.allows_bicycles[1]

\* a query whose times, if any, are clock times and whose limit, if any, is
\* at most 100
WellFormed(query) ==
    /\ query.departure_time_start # None => ValidTime(query.departure_time_start[1])
    /\ query.departure_time_end # None => ValidTime(query.departure_time_end[1])
    /\ query.limit # None => query.limit[1] <= 100

\* the n-th smallest element of a set of numbers
NthOf(S, n) == CHOOSE i \in S : Cardinality({ j \in S : j <= i }) = n

\* C20: for a well-formed query the route filter returns exactly the entries
\* that satisfy every constraint present, in their table order: the total of a
\* response is the number of those entries and its data is their page,
\* row n of it being the entry at the ((page - 1) * limit + n)-th of their
\* table positions; and two calls with the same query return the same.
C20_FilterExactAndDeterministic ==
    \A k \in 1..Len(served) :
        LET query == served[k].params
            response == served[k].response
            want == { i \in 1..TableRows : Satisfies(ScheduleTable[i], query) }
            skipped == (PageOf(query) - 1) * LimitOf(query)
            left == IF Cardinality(want) > skipped THEN Cardinality(want) - skipped ELSE 0
        IN  WellFormed(query) =>
            /\ response.success
            /\ response.total = Cardinality(want)
            /\ Len(response.data) = IF left < LimitOf(query) THEN left ELSE LimitOf(query)
            /\ \A n \in 1..Len(response.data) :
                  response.data[n] = ScheduleTable[NthOf(want, skipped + n)]
            /\ \A l \in 1..Len(served) :
                  served[l].params = query => served[l].response = response

\* two calls with the window 09:00-10:00 and nothing else, each answered
\* with rows 3 (stored as 9:05), 6, 7 and 8 of the table in that order
C20_Witness ==
    /\ Len(served) = 2
    /\ served[1].params = served[2].params
    /\ served[1].params.departure_time_start = Some(Time0900)
    /\ served[1].params.departure_time_end = Some(Time1000)
    /\ served[2].response.data
          = <<ScheduleTable[3], ScheduleTable[6], ScheduleTable[7], ScheduleTable[8]>>

\* the rows of a response hold an entry that departs at the time written t
HasDeparture(data, t) == \E n \in 1..Len(data) : data[n].departure_time = t

\* C21: the departure-time window is inclusive at both bounds and compares
\* times after normalising single-digit hours: the response to a query
\* with departure_time_start = "09:00", departure_time_end = "10:00" and
\* no other constraint holds the entry stored as "9:05" and the entry
\* stored as "09:30", the entries that leave at 09:00 and at 10:00 sharp,
\* and no entry that leaves at 08:30 or 10:30.
C21_WindowInclusiveNormalised ==
    \A k \in 1..Len(served) :
        LET query == served[k].params
            data == served[k].response.data
        IN  (/\ query.departure_time_start = Some(Time0900)
             /\ query.departure_time_end = Some(Time1000)
             /\ query.departure = None /\ query.arrival = None /\ query.company = None
             /\ query.allows_vehicles = None /\ query.allows_bicycles = None
             /\ PageOf(query) = 1) =>
                /\ HasDeparture(data, <<"9", ":", "0", "5">>)
                /\ HasDeparture(data, <<"0", "9", ":", "3", "0">>)
                /\ HasDeparture(data, Time0900)
                /\ HasDeparture(data, Time1000)
                /\ ~HasDeparture(data, <<"0", "8", ":", "3", "0">>)
                /\ ~HasDeparture(data, <<"1", "0", ":", "3", "0">>)

\* the window query was answered, by four entries, "9:05" the first
C21_Witness ==
    \E k \in 1..Len(served) :
        /\ served[k].params.departure_time_start = Some(Time0900)
        /\ served[k].params.departure_time_end = Some(Time1000)
        /\ served[k].response.total = 4
        /\ served[k].response.data[1].departure_time = <<"9", ":", "0", "5">>
        /\ HasDeparture(ScheduleTable, <<"0", "8", ":", "3", "0">>)
        /\ HasDeparture(ScheduleTable, <<"1", "0", ":", "3", "0">>)

\* C22: a query with a time that is no clock time or with a limit above
\* 100 is rejected with a validation error that names an offending field
\* and is not executed (no row, no total), every other query is executed;
\* page is 1 and limit is 20 when the query has none.
C22_InvalidRejectedDefaultsApplied ==
    \A k \in 1..Len(served) :
        LET query == served[k].params
            response == served[k].response
        IN  /\ response.success <=> WellFormed(query)
            /\ ~WellFormed(query) =>
                  /\ response.data = <<>>
                  /\ response.total = 0
                  /\ response.message[1] = "validation error"
                  /\ \/ /\ response.message[2] = "limit"
                        /\ query.limit # None /\ query.limit[1] > 100
                     \/ /\ response.message[2] = "departure_time_start"
                        /\ query.departure_time_start # None
                        /\ ~ValidTime(query.departure_time_start[1])
                     \/ /\ response.message[2] = "departure_time_end"
                        /\ query.departure_time_end # None
                        /\ ~ValidTime(query.departure_time_end[1])
            /\ (WellFormed(query) /\ query.page = None) =>
                  /\ response.page = 1
                  /\ query.limit # None =>
                        response.data = Paginate(RouteFilter(ScheduleTable, query), 1, query.limit[1])
            /\ (WellFormed(query) /\ query.limit = None) =>
                  /\ response.limit = 20
                  /\ Len(response.data) <= 20
                  /\ (query.page = None /\ response.total >= 20) => Len(response.data) = 20

\* a rejected limit of 101, and an accepted query without page and limit
\* that matches the whole table and got its first 20 rows
C22_Witness ==
    /\ Len(served) = 2
    /\ served[1].params.limit = Some(101)
    /\ ~served[1].response.success
    /\ served[2].params = EmptyParams
    /\ served[2].response.total = TableRows
    /\ Len(served[2].response.data) = 20

\* the state a successful response to params puts on the page
DisplayOf(params) ==
    [groups |-> GroupedResponses[params],
     pagination |-> [total |-> JsOr(SearchResponses[params].total, 0),
                     page |-> JsOr(SearchResponses[params].page, 1),
                     limit |-> JsOr(SearchResponses[params].limit, 20)]]

\* C23: the latest search wins.  A response to a search that is not the
\* most recently issued one never changes routeGroups or pagination; and
\* once no request is in flight and no response since the latest search
\* has failed (error is null), the page displays the response to the search
\* recorded in currentSearchParams.
C23_LatestSearchWins ==
    /\ \A req \in inflight :
          req.id = issued => req.params = currentSearchParams
    /\ (inflight = {} /\ issued > 0 /\ error = Null /\ HasKeys(currentSearchParams)) =>
          /\ routeGroups = DisplayOf(currentSearchParams).groups
          /\ pagination = DisplayOf(currentSearchParams).pagination

\* C24: loading is true in every state in which a search request is in
\* flight, so that the submit button and the two page buttons are disabled
\* until the last outstanding response has been handled.
C24_LoadingWhileInFlight ==
    inflight # {} =>
        /\ loading
        /\ PrevDisabled
        /\ NextDisabled

\* C25: every search eventually leaves the loading state: whichever way
\* the request of a search ends (success, success: false, a thrown error),
\* handleSearch then sets loading to false; a loading page is eventually
\* not loading; and the page is never loading when no request is
\* outstanding.
C25_LoadingEnds ==
    /\ [][\A i \in 1..MaxSearches : Respond(i) => ~loading']_vars
    /\ loading ~> ~loading
    /\ [](inflight = {} => ~loading)

\* all searches of the run were started and answered, the last answer being
\* a thrown error, and the page is not loading
C25_Witness ==
    /\ issued = MaxSearches
    /\ inflight = {}
    /\ error = "NetworkError"
    /\ ~loading

\* C26: when the request of a search ends in a failure (success: false or
\* a thrown error) the page has an error message and the routeGroups and
\* pagination it had; when it ends in a success the page has no error
\* afterwards, so that an error message is never shown next to the groups
\* of the search that has just succeeded.
C26_FailureKeepsResultsSuccessClearsError ==
    [][\A req \in inflight :
          /\ (SearchFails(req) \/ SearchThrows(req)) =>
                /\ error' # Null
                /\ UNCHANGED <<routeGroups, pagination>>
          /\ SearchSucceeds(req) => error' = Null]_vars

\* the request a step has started
Started == inflight' \ inflight

\* C27: a click on 'previous' or 'next' starts one request, for the
\* parameters of currentSearchParams with a page inside
\* 1..ceil(total / limit) of the pagination the page displays; it happens
\* only when the controls are offered (total > limit) and the page is not
\* loading, 'previous' only from a page > 1 and 'next' only from a page
\* below ceil(total / limit).
C27_PageControlsStayInRange ==
    [][(PreviousPage \/ NextPage) =>
          /\ pagination.total > pagination.limit
          /\ ~loading
          /\ \E req \in Started :
                /\ Started = {req}
                /\ req.params = [currentSearchParams EXCEPT !.page = req.params.page]
                /\ req.params.page # None
                /\ req.params.page[1] \in 1..TotalPages
                /\ \/ req.params.page[1] = pagination.page - 1 /\ pagination.page > 1
                   \/ req.params.page[1] = pagination.page + 1 /\ pagination.page < TotalPages]_vars

\* the page shows page 2 of 2 and has requested page 1 through 'previous'
C27_Witness ==
    /\ pagination.page = 2
    /\ TotalPages = 2
    /\ ShowsPagination
    /\ loading
    /\ \E req \in inflight : req.id = issued /\ req.params.page = Some(1)
                                /\ req.params = currentSearchParams

\* the fields of RouteSearchParams that hold a string
StringFields ==
    {"departure", "arrival", "company", "departure_time_start", "departure_time_end"}

\* C28: every query handed to FerryAPI.searchRoutes leaves out the fields
\* it does not constrain: none of its fields carries the empty string.
C28_UnconstrainedFieldsOmitted ==
    \A req \in inflight :
        \A f \in StringFields : req.params[f] # Some(<<>>)

(***************************************************************************)
(* Properties of calculateDuration.                                        *)
(***************************************************************************)
HasHourSign(r) == \E k \in 1..Len(r) : r[k] = HourSign

\* the digits before the hour sign, and those between it (or the start) and
\* the final minute sign
HoursPart(r) == SubSeq(r, 1, IndexOf(r, HourSign) - 1)

MinutesPart(r) == SubSeq(r, IndexOf(r, HourSign) + 1, Len(r) - 1)

\* r is <digits> minute-sign or <digits> hour-sign <digits> minute-sign
IsDurationString(r) ==
    /\ Len(r) >= 2
    /\ r[Len(r)] = MinuteSign
    /\ MinutesPart(r) # <<>> /\ AllDigits(MinutesPart(r))
    /\ HasHourSign(r) => (HoursPart(r) # <<>> /\ AllDigits(HoursPart(r)))

\* the minutes a duration string stands for
ReportedMinutes(r) ==
    IF HasHourSign(r)
    THEN 60 * DecimalValue(HoursPart(r)) + DecimalValue(MinutesPart(r))
    ELSE DecimalValue(MinutesPart(r))

ValidCallReturned ==
    dpc = "returned" /\ ValidTime(departure) /\ ValidTime(arrival)

\* C5: for valid departure and arrival times the returned string reports
\* (arrival minute of day - departure minute of day) mod 1440 minutes, so an
\* arrival earlier on the clock counts as arrival on the next day.
C5_ElapsedModulo1440 ==
    ValidCallReturned =>
        /\ IsDurationString(result)
        /\ ReportedMinutes(result)
              = (MinuteOfDay(arrival) - MinuteOfDay(departure)) % (24 * 60)

\* 23:50 to 00:10 has returned 20 minutes
C5_Witness ==
    /\ dpc = "returned"
    /\ departure = <<"2", "3", ":", "5", "0">>
    /\ arrival = <<"0", "0", ":", "1", "0">>
    /\ result = <<"2", "0", MinuteSign>>

\* C6: when the departure or the arrival is missing or no valid time, the
\* call returns the unknown-duration string '-'.
C6_MalformedGivesSentinel ==
    (dpc = "returned" /\ (~ValidTime(departure) \/ ~ValidTime(arrival)))
        => result = <<"-">>

\* C7: equal valid departure and arrival clock times give zero minutes.
C7_EqualTimesGiveZero ==
    (ValidCallReturned /\ MinuteOfDay(departure) = MinuteOfDay(arrival))
        => /\ duration = Num(0)
           /\ result = <<"0", MinuteSign>>

\* the same clock time, written 9:05 and 09:05, has returned zero minutes
C7_Witness ==
    /\ dpc = "returned"
    /\ departure = <<"9", ":", "0", "5">>
    /\ arrival = <<"0", "9", ":", "0", "5">>
    /\ result = <<"0", MinuteSign>>

\* C8: for valid times the duration is in 0..1439, is zero only when the two
\* clock times are equal, and is the same for the two times moved by any
\* number of minutes modulo 1440.
C8_RangeAndRotation ==
    ValidCallReturned =>
        /\ duration.kind = "num"
        /\ duration.val >= 0 /\ duration.val < 24 * 60
        /\ duration.val = 0 <=> MinuteOfDay(departure) = MinuteOfDay(arrival)
        /\ \A k \in 0..(24 * 60 - 1) :
              Duration(ClockTime((MinuteOfDay(departure) + k) % (24 * 60)),
                       ClockTime((MinuteOfDay(arrival) + k) % (24 * 60))) = duration

\* a next-day arrival, 23:50 to 00:10, whose rotation by 10 minutes (00:00 to
\* 00:20) no longer crosses midnight
C8_Witness ==
    /\ dpc = "returned"
    /\ departure = <<"2", "3", ":", "5", "0">>
    /\ arrival = <<"0", "0", ":", "1", "0">>
    /\ duration = Num(20)
    /\ Duration(ClockTime((MinuteOfDay(departure) + 10) % (24 * 60)),
                ClockTime((MinuteOfDay(arrival) + 10) % (24 * 60))) = Num(20)

\* C9: for valid times the returned string writes the elapsed minutes d as
\* hours d div 60 and minutes d mod 60; it has the hours-and-minutes form
\* exactly when d div 60 > 0 and the minutes-only form exactly when d < 60.
C9_HoursAndMinutesForm ==
    ValidCallReturned =>
        /\ IsDurationString(result)
        /\ HasHourSign(result) <=> duration.val \div 60 > 0
        /\ ~HasHourSign(result) <=> duration.val < 60
        /\ DecimalValue(MinutesPart(result)) = duration.val % 60
        /\ DecimalValue(MinutesPart(result)) \in 0..59
        /\ HasHourSign(result) => DecimalValue(HoursPart(result)) = duration.val \div 60

\* 08:25 to 10:00 has returned 1 hour 35 minutes
C9_Witness ==
    /\ dpc = "returned"
    /\ departure = <<"0", "8", ":", "2", "5">>
    /\ arrival = <<"1", "0", ":", "0", "0">>
    /\ result = <<"1", HourSign, "3", "5", MinuteSign>>

(***************************************************************************)
(* Properties of the embedded duration helpers.                            *)
(***************************************************************************)
\* C29: the calculateDuration embedded in RouteCard returns the string the
\* exported calculateDuration returns, for every pair of arguments: times,
\* pairs across midnight, equal times, strings that are no time and
\* missing values.
C29_RouteCardHelperEquivalent ==
    (dpc = "returned" /\ cardResult # None) => cardResult = Some(result)

\* both helpers were called with 23:50 and 00:10 and returned '20m'
C29_Witness ==
    /\ departure = <<"2", "3", ":", "5", "0">>
    /\ arrival = <<"0", "0", ":", "1", "0">>
    /\ dpc = "returned"
    /\ result = <<"2", "0", MinuteSign>>
    /\ cardResult = Some(result)

\* a string of calculateDuration with the signs of the island page
WithBusSigns(r) ==
    [k \in 1..Len(r) |-> IF r[k] = HourSign THEN BusHourSign
                          ELSE IF r[k] = MinuteSign THEN BusMinuteSign ELSE r[k]]

\* C30: for two clock times HH:MM the helper of the island page computes
\* the elapsed minutes calculateDuration computes, also when the arrival
\* is earlier on the clock than the departure (arrival on the next day),
\* and the bus row shows them.
C30_BusHelperSameMinutes ==
    (/\ ValidTime(departure) /\ ValidTime(arrival)
     /\ dpc = "returned" /\ busResult # None) =>
        /\ busDiff = duration
        /\ busResult = Some(WithBusSigns(result))

====
